---- MODULE Spec2Model ----
(***************************************************************************)
(* Model of enable_sms.py: a command-line run that resolves a deployment,  *)
(* lists its projects, fetches each project's details, and PATCHes the     *)
(* managed-scan configuration of every project not already SMS-enabled.    *)
(*                                                                         *)
(* Decoded JSON values are tagged records:                                 *)
(*   Null, JBool(b), JStr(s), JList(seq), JObj(function from keys)         *)
(* so that Python's .get(), `in`, `or`, `and` and truthiness are computed  *)
(* as the interpreter computes them.                                       *)
(***************************************************************************)
EXTENDS Integers, Sequences, FiniteSets, TLC

VARIABLES
    args,             \* argparse result: deployment_slug, api_token, dry_run
    env_token,        \* os.getenv("SEMGREP_API_TOKEN")
    pc,               \* position of main()
    exit_code,        \* process exit status (-1 while running)
    api_token,        \* main: api_token
    deployment_slug,  \* main: deployment_slug
    projects,         \* main: projects
    i,                \* index of the filter loop (for p in projects)
    to_enable,        \* main: to_enable
    j,                \* index of the enable loop (for project_name in to_enable)
    http,             \* every HTTP request issued, with the response received
    out,              \* lines printed that the properties refer to
    pd,               \* argument of a direct call of project_has_sms_enabled
    pd_result         \* its return value

vars == <<args, env_token, pc, exit_code, api_token, deployment_slug, projects,
          i, to_enable, j, http, out, pd, pd_result>>

(***************************************************************************)
(* Bounds                                                                  *)
(***************************************************************************)
MaxProjects == 2

(***************************************************************************)
(* Decoded JSON / Python values                                            *)
(***************************************************************************)
Null == [t |-> "null"]

JBool(b) == [t |-> "bool", b |-> b]

JStr(s) == [t |-> "str", s |-> s]

JList(s) == [t |-> "list", v |-> s]

JObj(f) == [t |-> "obj", f |-> f]

NoKeys == [k \in {} |-> Null]

EmptyObj == JObj(NoKeys)

IsDict(v) == v.t = "obj"

IsList(v) == v.t = "list"

\* key in d
HasKey(d, k) == IsDict(d) /\ k \in DOMAIN d.f

\* d.get(k): None when the key is absent
Get(d, k) == IF k \in DOMAIN d.f THEN d.f[k] ELSE Null

\* bool(v)
Truthy(v) ==
    CASE v.t = "null" -> FALSE
      [] v.t = "bool" -> v.b
      [] v.t = "str"  -> v.s # ""
      [] v.t = "list" -> v.v # <<>>
      [] v.t = "obj"  -> DOMAIN v.f # {}

\* a or b
PyOr(a, b) == IF Truthy(a) THEN a ELSE b

\* a and b
PyAnd(a, b) == IF Truthy(a) THEN b ELSE a

Last(s) == s[Len(s)]

(***************************************************************************)
(* Requests, responses and printed lines                                   *)
(***************************************************************************)
Payload ==
    JObj([diff_scan |-> JObj([enabled |-> JBool(TRUE)]),
          full_scan |-> JObj([enabled |-> JBool(TRUE)])])

\* one request with its response; ep is the endpoint under BASE_URL:
\*   "deployments"   /deployments
\*   "projects"      /deployments/{slug}/projects
\*   "project"       /deployments/{slug}/projects/{name}
\*   "managed-scan"  /deployments/{slug}/projects/{name}/managed-scan
Request(method, ep, slug, name, body, resp) ==
    [method |-> method, ep |-> ep, slug |-> slug, name |-> name,
     body |-> body, status |-> resp.status, data |-> resp.data]

Line(tag, slug, name, body) ==
    [tag |-> tag, slug |-> slug, name |-> name, body |-> body]

Resp(status, data) == [status |-> status, data |-> data]

(***************************************************************************)
(* Inputs: command line, environment and the responses of the service      *)
(***************************************************************************)
ArgSets ==
    [deployment_slug : {Null, JStr(""), JStr("acme")},
     api_token : {Null, JStr("tok")},
     dry_run : BOOLEAN]

EnvTokens == {Null, JStr("envtok")}

Deployment(slug) == JObj([id |-> JStr("1"), name |-> JStr("n"), slug |-> JStr(slug)])

NoSlugDeployment == JObj([id |-> JStr("1"), name |-> JStr("n")])

DeploymentsResponses ==
    { Resp(500, JObj([error |-> JStr("server error")])),
      Resp(200, EmptyObj),
      Resp(200, JObj([deployments |-> JList(<<>>)])),
      Resp(200, JObj([deployments |-> JList(<<NoSlugDeployment, Deployment("d1")>>)])),
      Resp(200, JObj([deployments |-> JList(<<Deployment("d1")>>)])),
      Resp(200, JObj([deployments |-> JList(<<Deployment("d2"), Deployment("d1")>>)])) }

ProjectObjs ==
    { JObj([name |-> JStr("a")]),
      JObj([name |-> JStr(""), slug |-> JStr("b")]),
      EmptyObj }

SeqsUpTo(S, n) == UNION {[1..k -> S] : k \in 0..n}

ProjectLists == SeqsUpTo(ProjectObjs, MaxProjects)

ProjectsResponses ==
    { Resp(500, JObj([error |-> JStr("server error")])), Resp(200, Null), Resp(200, EmptyObj),
      Resp(200, JObj([projects |-> Null])) }
    \cup { Resp(200, JList(l)) : l \in ProjectLists }
    \cup { Resp(200, JObj([projects |-> JList(l)])) : l \in ProjectLists }

Scan(b) == JObj([enabled |-> JBool(b)])

Details(d, f) ==
    JObj([name |-> JStr("n"),
          managed_scan_config |-> JObj([diff_scan |-> Scan(d), full_scan |-> Scan(f)])])

DetailResponses ==
    { Resp(404, JObj([error |-> JStr("not found")])),
      Resp(200, EmptyObj),
      Resp(200, JObj([project |-> EmptyObj])),
      Resp(200, JObj([name |-> JStr("n")])),
      Resp(200, JObj([project |-> Details(TRUE, TRUE)])),
      Resp(200, JObj([project |-> Details(TRUE, FALSE)])) }

PatchResponses ==
    { Resp(200, Null), Resp(204, Null), Resp(500, JObj([error |-> JStr("server error")])) }

\* every project-detail mapping over the fields the predicate reads
EnabledVals == {Null, JBool(TRUE), JBool(FALSE)}

ScanVals == {Null, EmptyObj} \cup { JObj([enabled |-> e]) : e \in EnabledVals }

MscVals ==
    {Null} \cup { JObj(f) : f \in UNION { [D -> ScanVals] :
                                         D \in SUBSET {"diff_scan", "full_scan"} } }

ProjectDetailMappings ==
    { JObj(f) : f \in { g \in UNION { [D -> MscVals \cup {JStr("n")}] :
                                     D \in SUBSET {"name", "managed_scan_config"} } :
                        /\ "name" \in DOMAIN g => g["name"] = JStr("n")
                        /\ "managed_scan_config" \in DOMAIN g
                              => g["managed_scan_config"] \in MscVals } }

(***************************************************************************)
(* The functions of enable_sms.py                                          *)
(***************************************************************************)
\* variant: takes the first deployment that has a slug
resolve_deployment_slug_FirstWithSlug(explicit_slug, resp) ==
    IF Truthy(explicit_slug)
    THEN [req |-> FALSE, exit |-> FALSE, warn |-> FALSE, ret |-> explicit_slug]
    ELSE IF resp.status # 200
    THEN [req |-> TRUE, exit |-> TRUE, warn |-> FALSE, ret |-> Null]
    ELSE LET deployments == PyOr(Get(resp.data, "deployments"), JList(<<>>))
             withSlug == SelectSeq(deployments.v, LAMBDA d : Truthy(Get(d, "slug")))
         IN  IF withSlug = <<>>
             THEN [req |-> TRUE, exit |-> TRUE, warn |-> FALSE, ret |-> Null]
             ELSE [req |-> TRUE, exit |-> FALSE,
                   warn |-> Len(deployments.v) > 1, ret |-> Get(withSlug[1], "slug")]

\* variant: takes the last deployment of the list instead of the first
resolve_deployment_slug_Last(explicit_slug, resp) ==
    IF Truthy(explicit_slug)
    THEN [req |-> FALSE, exit |-> FALSE, warn |-> FALSE, ret |-> explicit_slug]
    ELSE IF resp.status # 200
    THEN [req |-> TRUE, exit |-> TRUE, warn |-> FALSE, ret |-> Null]
    ELSE LET deployments == PyOr(Get(resp.data, "deployments"), JList(<<>>)) IN
         IF ~Truthy(deployments)
         THEN [req |-> TRUE, exit |-> TRUE, warn |-> FALSE, ret |-> Null]
         ELSE LET chosen == Last(deployments.v)
                  slug == Get(chosen, "slug")
              IN  [req |-> TRUE, exit |-> ~Truthy(slug),
                   warn |-> Len(deployments.v) > 1,
                   ret |-> IF Truthy(slug) THEN slug ELSE Null]

\* resolve_deployment_slug: resp is the response of GET /deployments, read
\* only when no explicit slug is given. req: whether the request is issued.
resolve_deployment_slug(explicit_slug, resp) ==
    IF Truthy(explicit_slug)
    THEN [req |-> FALSE, exit |-> FALSE, warn |-> FALSE, ret |-> explicit_slug]
    ELSE IF resp.status # 200
    THEN [req |-> TRUE, exit |-> TRUE, warn |-> FALSE, ret |-> Null]
    ELSE LET deployments == PyOr(Get(resp.data, "deployments"), JList(<<>>)) IN
         IF ~Truthy(deployments)
         THEN [req |-> TRUE, exit |-> TRUE, warn |-> FALSE, ret |-> Null]
         ELSE LET chosen == deployments.v[1]
                  slug == Get(chosen, "slug")
              IN  IF ~Truthy(slug)
                  THEN [req |-> TRUE, exit |-> TRUE,
                        warn |-> Len(deployments.v) > 1, ret |-> Null]
                  ELSE [req |-> TRUE, exit |-> FALSE,
                        warn |-> Len(deployments.v) > 1, ret |-> slug]

\* variant: accepts only the wrapped shape
get_all_projects_WrappedOnly(resp) ==
    IF resp.status = 200 /\ IsDict(resp.data) /\ HasKey(resp.data, "projects")
    THEN [exit |-> FALSE, ret |-> resp.data.f["projects"]]
    ELSE [exit |-> TRUE, ret |-> Null]

\* get_all_projects: resp is the response of GET /deployments/{slug}/projects
get_all_projects(resp) ==
    IF resp.status # 200
    THEN [exit |-> TRUE, ret |-> Null]
    ELSE IF IsList(resp.data)
    THEN [exit |-> FALSE, ret |-> resp.data]
    ELSE IF IsDict(resp.data) /\ HasKey(resp.data, "projects")
    THEN [exit |-> FALSE, ret |-> resp.data.f["projects"]]
    ELSE [exit |-> TRUE, ret |-> Null]

\* variant: parses the body without looking at the status
get_project_details_NoStatusCheck(resp) ==
    IF IsDict(resp.data) /\ HasKey(resp.data, "project")
    THEN resp.data.f["project"]
    ELSE resp.data

\* get_project_details: resp is the response of the per-project GET
get_project_details(resp) ==
    IF resp.status # 200
    THEN Null
    ELSE IF IsDict(resp.data) /\ HasKey(resp.data, "project")
    THEN resp.data.f["project"]
    ELSE resp.data

\* variant: one enabled flag is enough
project_has_sms_enabled_Either(project_details) ==
    LET msc == PyOr(Get(project_details, "managed_scan_config"), EmptyObj)
        diff_scan == PyOr(Get(msc, "diff_scan"), EmptyObj)
        full_scan == PyOr(Get(msc, "full_scan"), EmptyObj)
    IN  Truthy(PyOr(Get(diff_scan, "enabled"), Get(full_scan, "enabled")))

project_has_sms_enabled(project_details) ==
    LET msc == PyOr(Get(project_details, "managed_scan_config"), EmptyObj)
        diff_scan == PyOr(Get(msc, "diff_scan"), EmptyObj)
        full_scan == PyOr(Get(msc, "full_scan"), EmptyObj)
    IN  Truthy(PyAnd(Get(diff_scan, "enabled"), Get(full_scan, "enabled")))

\* main, line 222
ProjectName(p) ==
    PyOr(PyOr(Get(p, "name"), Get(p, "project_name")), Get(p, "slug"))

\* variant: the loop stays on the same element
NextIndex_Stuck(k) == k

\* the for loops of main advance to the next element, whatever the iteration did
NextIndex(k) == k + 1

\* variant: the dry-run flag is ignored
SendsPatch_Always(dry_run) == TRUE

\* enable_sms_for_project: whether the PATCH is sent
SendsPatch(dry_run) == ~dry_run

\* variant: only 200 is taken as success
PatchSucceeded_Only200(status) == status = 200

\* enable_sms_for_project: the statuses taken as success
PatchSucceeded(status) == status \in {200, 204}

(***************************************************************************)
(* A run of main()                                                         *)
(***************************************************************************)
Init ==
    /\ args \in ArgSets
    /\ env_token \in EnvTokens
    /\ pc = "start"
    /\ exit_code = -1
    /\ api_token = Null
    /\ deployment_slug = Null
    /\ projects = <<>>
    /\ i = 1
    /\ to_enable = <<>>
    /\ j = 1
    /\ http = <<>>
    /\ out = <<>>
    /\ pd = Null
    /\ pd_result = FALSE

\* sys.exit(1), or an uncaught exception
Exit(lines) ==
    /\ pc' = "exit"
    /\ exit_code' = 1
    /\ out' = out \o lines

\* main, lines 201-209
ParseArgs ==
    /\ pc = "start"
    /\ LET tok == PyOr(args.api_token, env_token) IN
         /\ api_token' = tok
         /\ IF ~Truthy(tok)
            THEN Exit(<<Line("ERROR", Null, Null, Null)>>)
            ELSE /\ pc' = "resolve"
                 /\ UNCHANGED <<exit_code, out>>
    /\ UNCHANGED <<args, env_token, deployment_slug, projects, i, to_enable, j,
                   http, pd, pd_result>>

\* main, line 211
ResolveDeployment ==
    /\ pc = "resolve"
    /\ \E resp \in DeploymentsResponses :
         LET r == resolve_deployment_slug(args.deployment_slug, resp) IN
         /\ http' = IF r.req
                    THEN Append(http, Request("GET", "deployments", Null, Null, Null, resp))
                    ELSE http
         /\ IF r.exit
            THEN /\ Exit(<<Line("ERROR", Null, Null, Null)>>)
                 /\ UNCHANGED deployment_slug
            ELSE /\ deployment_slug' = r.ret
                 /\ pc' = "list"
                 /\ out' = IF r.warn THEN Append(out, Line("WARN", Null, Null, Null)) ELSE out
                 /\ UNCHANGED exit_code
    /\ UNCHANGED <<args, env_token, api_token, projects, i, to_enable, j, pd, pd_result>>

\* main, lines 213-217
ListProjects ==
    /\ pc = "list"
    /\ \E resp \in ProjectsResponses :
         LET r == get_all_projects(resp) IN
         /\ http' = Append(http, Request("GET", "projects", deployment_slug, Null, Null, resp))
         /\ IF r.exit
            THEN /\ Exit(<<Line("ERROR", deployment_slug, Null, Null)>>)
                 /\ UNCHANGED projects
            ELSE IF ~IsList(r.ret)
            THEN \* len(projects) raises TypeError
                 /\ Exit(<<>>)
                 /\ UNCHANGED projects
            ELSE /\ projects' = r.ret.v
                 /\ pc' = "filter"
                 /\ UNCHANGED <<exit_code, out>>
    /\ UNCHANGED <<args, env_token, api_token, deployment_slug, i, to_enable, j,
                   pd, pd_result>>

\* main, lines 220-235: one iteration of the filter loop
FilterProject ==
    /\ pc = "filter"
    /\ i <= Len(projects)
    /\ LET project_name == ProjectName(projects[i]) IN
         IF ~Truthy(project_name)
         THEN /\ out' = Append(out, Line("WARN", deployment_slug, Null, Null))
              /\ UNCHANGED <<http, to_enable>>
         ELSE \E resp \in DetailResponses :
                LET details == get_project_details(resp) IN
                /\ http' = Append(http, Request("GET", "project", deployment_slug,
                                                project_name, Null, resp))
                /\ IF ~Truthy(details)
                   THEN /\ out' = IF resp.status # 200
                                  THEN Append(out, Line("WARN", deployment_slug,
                                                        project_name, Null))
                                  ELSE out
                        /\ UNCHANGED to_enable
                   ELSE IF project_has_sms_enabled(details)
                   THEN /\ out' = Append(out, Line("SKIP", deployment_slug,
                                                   project_name, Null))
                        /\ UNCHANGED to_enable
                   ELSE /\ out' = Append(out, Line("TODO", deployment_slug,
                                                   project_name, Null))
                        /\ to_enable' = Append(to_enable, project_name)
    /\ i' = NextIndex(i)
    /\ UNCHANGED <<args, env_token, pc, exit_code, api_token, deployment_slug,
                   projects, j, pd, pd_result>>

\* main, line 237: the filter loop is exhausted
FilterDone ==
    /\ pc = "filter"
    /\ i > Len(projects)
    /\ pc' = "enable"
    /\ UNCHANGED <<args, env_token, exit_code, api_token, deployment_slug,
                   projects, i, to_enable, j, http, out, pd, pd_result>>

\* main, lines 240-246 and enable_sms_for_project: one iteration of the enable loop
EnableProject ==
    /\ pc = "enable"
    /\ j <= Len(to_enable)
    /\ LET project_name == to_enable[j] IN
         IF ~SendsPatch(args.dry_run)
         THEN /\ out' = Append(out, Line("DRY-RUN", deployment_slug, project_name, Payload))
              /\ UNCHANGED http
         ELSE \E resp \in PatchResponses :
                /\ http' = Append(http, Request("PATCH", "managed-scan", deployment_slug,
                                                project_name, Payload, resp))
                /\ out' = Append(out, Line(IF PatchSucceeded(resp.status) THEN "OK" ELSE "ERROR",
                                           deployment_slug, project_name, Null))
    /\ j' = NextIndex(j)
    /\ UNCHANGED <<args, env_token, pc, exit_code, api_token, deployment_slug,
                   projects, i, to_enable, pd, pd_result>>

\* main returns: the process exits with status 0
Finish ==
    /\ pc = "enable"
    /\ j > Len(to_enable)
    /\ pc' = "done"
    /\ exit_code' = 0
    /\ UNCHANGED <<args, env_token, api_token, deployment_slug, projects, i,
                   to_enable, j, http, out, pd, pd_result>>

Next ==
    \/ ParseArgs
    \/ ResolveDeployment
    \/ ListProjects
    \/ FilterProject
    \/ FilterDone
    \/ EnableProject
    \/ Finish

Spec == Init /\ [][Next]_vars

(***************************************************************************)
(* Direct calls of project_has_sms_enabled on every detail mapping         *)
(***************************************************************************)
InitPred ==
    /\ args = [deployment_slug |-> Null, api_token |-> Null, dry_run |-> FALSE]
    /\ env_token = Null
    /\ pc = "call"
    /\ exit_code = -1
    /\ api_token = Null
    /\ deployment_slug = Null
    /\ projects = <<>>
    /\ i = 1
    /\ to_enable = <<>>
    /\ j = 1
    /\ http = <<>>
    /\ out = <<>>
    /\ pd \in ProjectDetailMappings
    /\ pd_result = FALSE

CallPred ==
    /\ pc = "call"
    /\ pd_result' = project_has_sms_enabled(pd)
    /\ pc' = "return"
    /\ UNCHANGED <<args, env_token, exit_code, api_token, deployment_slug, projects,
                   i, to_enable, j, http, out, pd>>

NextPred == CallPred

SpecPred == InitPred /\ [][NextPred]_vars

(***************************************************************************)
(* Vocabulary of the properties                                            *)
(***************************************************************************)
Calls(ep) == SelectSeq(http, LAMBDA r : r.ep = ep)

Patches == SelectSeq(http, LAMBDA r : r.method = "PATCH")

DetailCalls == Calls("project")

OkDetailCalls == SelectSeq(DetailCalls, LAMBDA r : r.status = 200)

FailedDetailCalls == SelectSeq(DetailCalls, LAMBDA r : r.status # 200)

FailedPatches == SelectSeq(Patches, LAMBDA r : r.status \notin {200, 204})

Lines(tag) == SelectSeq(out, LAMBDA l : l.tag = tag /\ l.name # Null)

Names(s) == [k \in 1..Len(s) |-> s[k].name]

\* the name main determines for each entry of the project list (Null: none)
EntryNames == [k \in 1..Len(projects) |-> ProjectName(projects[k])]

NamedUpTo(n) == SelectSeq(SubSeq(EntryNames, 1, n), LAMBDA x : x # Null /\ x # JStr(""))

\* s can be obtained from t by deleting elements
RECURSIVE IsSubseq(_, _)
IsSubseq(s, t) ==
    IF s = <<>> THEN TRUE
    ELSE IF t = <<>> THEN FALSE
    ELSE IF Head(s) = Head(t) THEN IsSubseq(Tail(s), Tail(t))
    ELSE IsSubseq(s, Tail(t))

\* the project object of a detail response body (section 4.3: a `project`
\* wrapper is unwrapped)
ProjectOf(data) == IF HasKey(data, "project") THEN data.f["project"] ELSE data

\* managed_scan_config.<scan>.enabled is present and true
FlagTrue(d, scan) ==
    /\ HasKey(d, "managed_scan_config")
    /\ HasKey(d.f["managed_scan_config"], scan)
    /\ HasKey(d.f["managed_scan_config"].f[scan], "enabled")
    /\ d.f["managed_scan_config"].f[scan].f["enabled"] = JBool(TRUE)

\* section 3: SMS-enabled iff both flags are true; anything missing: not enabled
SmsEnabled(d) == FlagTrue(d, "diff_scan") /\ FlagTrue(d, "full_scan")

NotEnabledDetailCalls ==
    SelectSeq(OkDetailCalls, LAMBDA r : ~SmsEnabled(ProjectOf(r.data)))

PastFilter == pc \in {"enable", "done"}

InLoops == pc \in {"filter", "enable", "done"}

(***************************************************************************)
(* C1: in dry-run mode no PATCH request is ever issued: every request of   *)
(* the run is a GET; each project taken from the to-enable list only gets  *)
(* a [DRY-RUN] line with its URL (slug, name) and the fixed body; and the  *)
(* read calls (deployments unless a slug is given, project list, one       *)
(* detail per named project) are still performed.                          *)
(***************************************************************************)
C1_DryRunNeverPatches ==
    args.dry_run =>
        /\ \A k \in 1..Len(http) : http[k].method = "GET"
        /\ PastFilter =>
             /\ Lines("DRY-RUN") =
                  [k \in 1..(j - 1) |->
                      Line("DRY-RUN", deployment_slug, to_enable[k], Payload)]
             /\ Len(Calls("projects")) = 1
             /\ Names(DetailCalls) = NamedUpTo(Len(projects))
             /\ ~Truthy(args.deployment_slug) => Len(Calls("deployments")) = 1

C1_Witness ==
    /\ args.dry_run
    /\ pc = "done"
    /\ Len(to_enable) >= 2
    /\ Len(Lines("DRY-RUN")) = Len(to_enable)
    /\ Len(DetailCalls) >= 2

(***************************************************************************)
(* C2: in a full (non-dry-run) run that reaches the end of the enable      *)
(* pass, the PATCH calls are exactly one per listed project whose fetched  *)
(* details are not SMS-enabled, in list order, and none for a project that *)
(* is SMS-enabled.                                                         *)
(***************************************************************************)
C2_OnePatchPerNotEnabledProject ==
    (pc = "done" /\ ~args.dry_run) =>
        Names(Patches) = Names(NotEnabledDetailCalls)

(***************************************************************************)
(* C3: a PATCH answered with a status other than 200 or 204 is a logged    *)
(* per-project error only: exactly those PATCHes print an [ERROR] line,    *)
(* the enable loop goes on so that every project of the to-enable list     *)
(* gets its call, and the process exits with status 0.                     *)
(***************************************************************************)
C3_PatchFailureIsNotFatal ==
    /\ Patches # <<>> => PastFilter /\ exit_code # 1
    /\ (PastFilter /\ ~args.dry_run) =>
         /\ Names(Patches) = SubSeq(to_enable, 1, j - 1)
         /\ Names(Lines("ERROR")) = Names(FailedPatches)
         /\ Names(Lines("OK")) =
              Names(SelectSeq(Patches, LAMBDA r : r.status \in {200, 204}))
         /\ pc = "done" => exit_code = 0 /\ Len(Patches) = Len(to_enable)

C3_Witness ==
    /\ pc = "done"
    /\ exit_code = 0
    /\ Len(Patches) >= 2
    /\ Patches[1].status = 500
    /\ Patches[2].status = 204

(***************************************************************************)
(* C4: a project whose detail fetch is answered with a non-200 status is   *)
(* skipped without aborting the run: a warning is printed, the project is  *)
(* not added to the to-enable list and gets no PATCH, and every other      *)
(* named project of the list is still fetched.                             *)
(***************************************************************************)
C4_FailedDetailFetchSkipsProject ==
    /\ FailedDetailCalls # <<>> => InLoops /\ exit_code # 1
    /\ InLoops =>
         /\ Names(DetailCalls) = NamedUpTo(i - 1)
         /\ Names(Lines("WARN")) = Names(FailedDetailCalls)
         /\ IsSubseq(to_enable, Names(OkDetailCalls))
         /\ IsSubseq(Names(Patches), Names(OkDetailCalls))
         /\ PastFilter => i = Len(projects) + 1

C4_Witness ==
    /\ pc = "done"
    /\ ~args.dry_run
    /\ Len(DetailCalls) >= 2
    /\ DetailCalls[1].status = 404
    /\ DetailCalls[2].status = 200
    /\ Len(Patches) = 1

(***************************************************************************)
(* C5: with no explicit slug, a deployments-list response that is non-200, *)
(* or whose list is empty, or whose first entry lacks a slug, ends the run *)
(* with exit code 1 and no further HTTP call.                              *)
(***************************************************************************)
DeploymentsOf(r) ==
    IF HasKey(r.data, "deployments") /\ IsList(r.data.f["deployments"])
    THEN r.data.f["deployments"].v
    ELSE <<>>

SlugOf(d) == IF HasKey(d, "slug") THEN d.f["slug"] ELSE Null

LacksSlug(d) == SlugOf(d) \in {Null, JStr("")}

BadDeploymentsResponse(r) ==
    \/ r.status # 200
    \/ DeploymentsOf(r) = <<>>
    \/ LacksSlug(DeploymentsOf(r)[1])

Resolved == pc \in {"list", "filter", "enable", "done"} \/ Calls("projects") # <<>>

C5_UnresolvableDeploymentIsFatal ==
    /\ (~Truthy(args.deployment_slug) /\ (Resolved \/ http # <<>>)) =>
          http[1].ep = "deployments"
    /\ (http # <<>> /\ http[1].ep = "deployments" /\ BadDeploymentsResponse(http[1])) =>
          /\ ~Truthy(args.deployment_slug)
          /\ pc = "exit"
          /\ exit_code = 1
          /\ Len(http) = 1

C5_Witness ==
    /\ pc = "exit"
    /\ Len(http) = 1
    /\ http[1].ep = "deployments"
    /\ http[1].status = 200
    /\ Len(DeploymentsOf(http[1])) = 2
    /\ LacksSlug(DeploymentsOf(http[1])[1])

(***************************************************************************)
(* C6: project_has_sms_enabled returns true iff both                       *)
(* managed_scan_config.diff_scan.enabled and                               *)
(* managed_scan_config.full_scan.enabled are present and true; for every   *)
(* other mapping (a level missing or null, a flag false) it returns false. *)
(***************************************************************************)
C6_PredicateIffBothFlagsTrue ==
    pc = "return" => (pd_result <=> SmsEnabled(pd))

C6_Witness ==
    /\ pc = "return"
    /\ pd_result
    /\ HasKey(pd, "name")

C8_SlugFixedByResolver ==
    /\ \A k \in 1..Len(http) :
          http[k].ep # "deployments" =>
              http[k].slug = deployment_slug /\ deployment_slug # Null
    /\ \A k \in 1..Len(out) :
          out[k].tag = "DRY-RUN" => out[k].slug = deployment_slug
    /\ Resolved =>
          IF Truthy(args.deployment_slug)
          THEN deployment_slug = args.deployment_slug /\ Calls("deployments") = <<>>
          ELSE /\ Len(Calls("deployments")) = 1
               /\ DeploymentsOf(http[1]) # <<>>
               /\ deployment_slug = SlugOf(DeploymentsOf(http[1])[1])

C8_Witness ==
    /\ pc = "done"
    /\ ~Truthy(args.deployment_slug)
    /\ Len(DeploymentsOf(http[1])) = 2
    /\ DeploymentsOf(http[1])[1] # DeploymentsOf(http[1])[2]
    /\ Patches # <<>>

(***************************************************************************)
(* C9: a run is linear. The requests are issued in the order: deployments  *)
(* list (at most once), project list (once), detail fetches, PATCHes; no   *)
(* detail fetch follows a PATCH and all fetches precede the first PATCH;   *)
(* each list entry causes at most one fetch and at most one PATCH, both in *)
(* list order; no step goes back; and the run ends when the to-enable list *)
(* is exhausted.                                                           *)
(***************************************************************************)
Rank(r) ==
    CASE r.ep = "deployments"  -> 1
      [] r.ep = "projects"     -> 2
      [] r.ep = "project"      -> 3
      [] r.ep = "managed-scan" -> 4

PcRank(p) ==
    CASE p = "start"   -> 1
      [] p = "resolve" -> 2
      [] p = "list"    -> 3
      [] p = "filter"  -> 4
      [] p = "enable"  -> 5
      [] p \in {"done", "exit"} -> 6

C9_Linear ==
    /\ \A k, l \in 1..Len(http) : k < l => Rank(http[k]) <= Rank(http[l])
    /\ Len(Calls("deployments")) <= 1
    /\ Len(Calls("projects")) <= 1
    /\ IsSubseq(Names(DetailCalls), EntryNames)
    /\ IsSubseq(Names(Patches), EntryNames)
    /\ Patches # <<>> => Names(DetailCalls) = NamedUpTo(Len(projects))
    /\ pc = "enable" => j <= Len(to_enable) + 1
    /\ pc = "done" =>
          /\ j = Len(to_enable) + 1
          /\ ~args.dry_run => Len(Patches) = Len(to_enable)
    /\ pc \in {"done", "exit"} \/ ENABLED Next

C9_Forward ==
    /\ PcRank(pc') >= PcRank(pc)
    /\ i' >= i
    /\ j' >= j
    /\ PcRank(pc') + i' + j' > PcRank(pc) + i + j
    /\ \E n \in 0..1 : Len(http') = Len(http) + n /\ SubSeq(http', 1, Len(http)) = http

C9_LinearRun == []C9_Linear /\ [][C9_Forward]_vars

C9_Witness ==
    /\ pc = "done"
    /\ ~args.dry_run
    /\ Len(Patches) >= 2
    /\ Len(DetailCalls) >= 2
    /\ Len(Calls("deployments")) = 1

(***************************************************************************)
(* C10: in the filter pass every named project whose detail fetch is       *)
(* answered with 200 is classified by the SMS-enabled predicate alone: it  *)
(* is classified ([SKIP] or [TODO]) and it is on the to-enable list        *)
(* exactly when its detail mapping is not SMS-enabled, also when the       *)
(* mapping has no managed_scan_config or no fields at all.                 *)
(***************************************************************************)
C10_ClassifiedByPredicateAlone ==
    InLoops =>
        /\ to_enable = Names(NotEnabledDetailCalls)
        /\ Len(Lines("SKIP")) + Len(Lines("TODO")) = Len(OkDetailCalls)

====
